---- MODULE Spec2Model ----
(***************************************************************************)
(* Model of the dashboard view src/src/views/HomeView.vue of Food-monitor:  *)
(* the streaming data pipeline (snapshot push, date filter, derived series, *)
(* current readings) and the chart synchronisation handlers (syncTooltip,   *)
(* syncExtremes, syncResetZoom, afterSetExtremes), with the component        *)
(* lifecycle (onMounted, onBeforeUnmount).                                   *)
(*                                                                          *)
(* The chart widget is outside the repository.  It is modelled only through *)
(* the capabilities the view relies on:                                      *)
(*   - axis.setExtremes(min, max, redraw, animation, args) fires the axis'   *)
(*     'setExtremes' handler with e = {min, max} + args and this = the axis  *)
(*     (this.chart = the owning chart), then stores the extremes, then fires *)
(*     the axis' 'afterSetExtremes' handler, whose e.min / e.max are absent  *)
(*     (undefined) when the axis is back at full extent;                     *)
(*   - a chart 'selection' handler runs with this = the chart (so this.chart *)
(*     is undefined) and an event that carries the selected range under      *)
(*     e.xAxis[0], not under e.min / e.max; the widget's default action      *)
(*     (zoom the x axis to the selection, or to full extent for the reset    *)
(*     button) runs after the handler;                                       *)
(*   - series.setData / axis.setCategories replace data in place.            *)
(* JavaScript handlers run to completion; a handler that calls into the      *)
(* widget, which calls back into a handler, is modelled with a call stack.   *)
(***************************************************************************)
EXTENDS Integers, Sequences, FiniteSets, TLC

(***************************************************************************)
(* Bounds of the model.                                                     *)
(***************************************************************************)
MaxSnapshotLen == 2      \* longest snapshot a push delivers
MaxDepth == 9            \* deepest call stack explored
NumRanges == 2           \* number of distinct concrete zoom windows
MaxIndex == 1            \* largest data index a pointer event resolves to

(***************************************************************************)
(* JavaScript values.                                                       *)
(***************************************************************************)
Undef == -1              \* undefined (also: a missing object member)
Null == -2               \* null
UnsubscribeFn == 1       \* the function onSnapshot returns

IsNullish(v) == v \in {Undef, Null}

(***************************************************************************)
(* Readings.  A timestamp string "DD/MM/YYYY HH:MM:SS" is kept as what      *)
(* split(' ') and split('/') / split(':') see: a sequence of space          *)
(* separated parts, each a sequence of numeric fields.  <<>> is the absent  *)
(* (undefined / empty) timestamp, <<date>> a string without a time part.    *)
(***************************************************************************)
TsA == << <<1, 1, 2025>>, <<10, 0, 0>> >>      \* 01/01/2025 10:00:00
TsB == << <<2, 1, 2025>>, <<10, 0, 0>> >>      \* 02/01/2025 10:00:00
TsNoTime == << <<1, 1, 2025>> >>               \* 01/01/2025
TsAbsent == << >>

Reading(ts, t, h, p) == [timestamp |-> ts, temperature |-> t, humidity |-> h, pressure |-> p]

ReadingA == Reading(TsA, 21, 50, 1000)
ReadingB == Reading(TsB, 22, Null, 1001)
ReadingNoTs == Reading(TsAbsent, Undef, 51, 0)
ReadingNoTime == Reading(TsNoTime, 23, 52, Undef)

Readings == {ReadingA, ReadingB, ReadingNoTs, ReadingNoTime}

RECURSIVE SeqsUpTo(_, _)
SeqsUpTo(S, n) ==
    IF n = 0 THEN {<<>>}
    ELSE LET shorter == SeqsUpTo(S, n - 1)
         IN shorter \cup {Append(s, x) : s \in {t \in shorter : Len(t) = n - 1}, x \in S}

Snapshots == SeqsUpTo(Readings, MaxSnapshotLen)

\* Snapshots whose timestamps are all absent or complete.
TimedSnapshots == SeqsUpTo(Readings \ {ReadingNoTime}, MaxSnapshotLen)

\* Values of the <input type="date"> fields: '' or YYYY-MM-DD as <<y, m, d>>.
NoDate == << >>
Date1 == <<2025, 1, 1>>
Date2 == <<2025, 1, 2>>
DateInputs == {NoDate, Date1, Date2}

(***************************************************************************)
(* Dates.  new Date(...) is modelled by the instant it denotes, counted in  *)
(* seconds since 1970 on a calendar with 12 months of 31 days; NaN is an    *)
(* Invalid Date.                                                            *)
(***************************************************************************)
NaN == -1

Epoch == 1970

Instant(y, m, d, hh, mm, ss) == (((((y - Epoch) * 12 + (m - 1)) * 31 + (d - 1)) * 24 + hh) * 60 + mm) * 60 + ss

ValidDate(y, m, d) == m \in 1..12 /\ d \in 1..31 /\ y >= Epoch
ValidTime(hh, mm, ss) == hh \in 0..23 /\ mm \in 0..59 /\ ss \in 0..59

\* new Date(startDate.value + ' 00:00:00')
StartOfDay(date) ==
    IF Len(date) = 3 /\ ValidDate(date[1], date[2], date[3])
    THEN Instant(date[1], date[2], date[3], 0, 0, 0) ELSE NaN

\* The end bound taken at the start of its day.
EndOfDayMidnight(date) ==
    IF Len(date) = 3 /\ ValidDate(date[1], date[2], date[3])
    THEN Instant(date[1], date[2], date[3], 0, 0, 0) ELSE NaN

\* new Date(endDate.value + ' 23:59:59')
EndOfDay(date) ==
    IF Len(date) = 3 /\ ValidDate(date[1], date[2], date[3])
    THEN Instant(date[1], date[2], date[3], 23, 59, 59) ELSE NaN

\* new Date(`${year}-${month}-${day}T${timePart}`) of a reading's timestamp:
\* [day, month, year] = datePart.split('/'), timePart = the second part.
ReadingDate(ts) ==
    LET datePart == ts[1]
        timePart == IF Len(ts) >= 2 THEN ts[2] ELSE << >>
    IN IF /\ Len(datePart) = 3
          /\ Len(timePart) = 3
          /\ ValidDate(datePart[3], datePart[2], datePart[1])
          /\ ValidTime(timePart[1], timePart[2], timePart[3])
       THEN Instant(datePart[3], datePart[2], datePart[1], timePart[1], timePart[2], timePart[3])
       ELSE NaN

\* readingDate >= start && readingDate <= end  (any comparison with NaN is false)
InRange(readingDate, start, end) ==
    /\ readingDate # NaN /\ start # NaN /\ end # NaN
    /\ readingDate >= start
    /\ readingDate <= end

FilterPredicate(reading, start, end) ==
    IF reading.timestamp = TsAbsent THEN FALSE
    ELSE InRange(ReadingDate(reading.timestamp), start, end)

RECURSIVE FilterSeq(_, _, _)
FilterSeq(data, start, end) ==
    IF data = << >> THEN << >>
    ELSE IF FilterPredicate(Head(data), start, end)
         THEN <<Head(data)>> \o FilterSeq(Tail(data), start, end)
         ELSE FilterSeq(Tail(data), start, end)

\* The computed property filteredSensorData, as a function of the refs it reads.
FilteredOf(all, active, sDate, eDate) ==
    IF ~active \/ sDate = NoDate \/ eDate = NoDate THEN all
    ELSE FilterSeq(all, StartOfDay(sDate), EndOfDay(eDate))

(***************************************************************************)
(* Derived series.                                                          *)
(***************************************************************************)
\* The label callback throws (TypeError: timePart is undefined) when the
\* timestamp is present but has no second part.
LabelThrows(reading) == reading.timestamp # TsAbsent /\ Len(reading.timestamp) < 2

\* `${shortDate} ${shortTime}`: DD/MM of the date part, HH:MM of the time part.
Label(reading) ==
    IF reading.timestamp = TsAbsent THEN << >>
    ELSE LET datePart == reading.timestamp[1]
             timePart == reading.timestamp[2]
         IN <<SubSeq(datePart, 1, IF Len(datePart) < 2 THEN Len(datePart) ELSE 2),
              SubSeq(timePart, 1, IF Len(timePart) < 2 THEN Len(timePart) ELSE 2)>>

\* A missing measurement passed on as it is.
KeepMissing(v) == v

\* reading.x || 0
OrZero(v) == IF IsNullish(v) \/ v = 0 THEN 0 ELSE v

MapLabels(data) == [i \in 1..Len(data) |-> Label(data[i])]
MapTemperature(data) == [i \in 1..Len(data) |-> OrZero(data[i].temperature)]
\* Readings without a humidity value skipped instead of defaulted.
MapHumiditySkipping(data) ==
    LET present == SelectSeq(data, LAMBDA r : ~IsNullish(r.humidity))
    IN [i \in 1..Len(present) |-> OrZero(present[i].humidity)]

MapHumidity(data) == [i \in 1..Len(data) |-> OrZero(data[i].humidity)]
MapPressure(data) == [i \in 1..Len(data) |-> OrZero(data[i].pressure)]

AnyLabelThrows(data) == \E i \in 1..Len(data) : LabelThrows(data[i])


(***************************************************************************)
(* Current-readings display.                                                *)
(***************************************************************************)
DatePlaceholder == <<Undef, Undef, Undef>>     \* '--/--/----'
TimePlaceholder == <<Undef, Undef>>            \* '--:--'

\* latest.x?.toFixed(1) || 0 : the one-decimal string of x, or the number 0.
FixedOrZero(v) == IF IsNullish(v) THEN [str |-> FALSE, v |-> 0] ELSE [str |-> TRUE, v |-> v]

Latest(data) == data[Len(data)]

CurrentDateOf(latest) ==
    IF latest.timestamp # TsAbsent THEN latest.timestamp[1] ELSE DatePlaceholder

CurrentTimeOnlyOf(latest) ==
    IF latest.timestamp # TsAbsent /\ Len(latest.timestamp) >= 2
    THEN latest.timestamp[2] ELSE TimePlaceholder

(***************************************************************************)
(* The sync group: charts[0..2] are the metric charts, combinedChart the    *)
(* fourth view.                                                              *)
(***************************************************************************)
NumMetricCharts == 3
TempChart == 1
HumidityChart == 2
PressureChart == 3
CombinedChart == 4
NoChart == 0                                   \* null / this.chart undefined

MetricCharts == 1..NumMetricCharts
Members == MetricCharts \cup {CombinedChart}

MoveEvents == {"mousemove", "touchmove", "touchstart"}

\* A zoom window over index space; both ends absent = full extent.
Ranges == {[min |-> i, max |-> i + 1] : i \in 0..(NumRanges - 1)}
FullExtent == [min |-> Undef, max |-> Undef]
IsUnset(r) == IsNullish(r.min) /\ IsNullish(r.max)

VARIABLES
    \* refs of the component
    currentTemperature, currentHumidity, currentPressure,
    currentDate, currentTimeOnly, currentTime,
    timeCategories, temperatureData, humidityData, pressureData,
    startDate, endDate, allSensorData, isFilterActive,
    \* module-level chart management variables
    charts, combinedChart, eventListeners, unsubscribeFirestore, isResetting,
    \* the widgets and the external source
    phase,          \* "created", "mounted", "mountFailed" or "unmounted"
    subscribed,     \* the Firestore listener is attached
    series,         \* per chart: the data of each of its series
    categories,     \* per chart: the x-axis categories
    extremes,       \* per chart: the x-axis zoom window
    tooltip,        \* per chart: the index the tooltip/crosshair is shown at
    stack,          \* call stack of the handler turn in progress
    attached,       \* the listeners attached to the chart containers
    destroyed,      \* the chart instances that were destroyed
    \* observations used to state the properties
    derivedFrom,    \* the view the derived arrays were last computed from
    obs,            \* what the last step did
    turn            \* what the handler turn in progress has done so far

dataVars == <<currentTemperature, currentHumidity, currentPressure,
              currentDate, currentTimeOnly, currentTime,
              timeCategories, temperatureData, humidityData, pressureData, derivedFrom>>
filterVars == <<startDate, endDate, isFilterActive>>
chartVars == <<charts, combinedChart, eventListeners, unsubscribeFirestore, phase, subscribed,
               attached, destroyed>>
syncVars == <<isResetting, extremes, stack>>
vars == <<dataVars, filterVars, allSensorData, chartVars, series, categories,
          syncVars, tooltip, obs, turn>>

\* What the last completed step did, for the properties.  Every field is
\* overwritten by the step that produces it and cleared by the others.
NoObs == [op |-> "none"]
NewTurn == [passes |-> 0]

Idle == stack = << >>

filteredSensorData == FilteredOf(allSensorData, isFilterActive, startDate, endDate)

Init ==
    /\ currentTemperature = [str |-> FALSE, v |-> 0]
    /\ currentHumidity = [str |-> FALSE, v |-> 0]
    /\ currentPressure = [str |-> FALSE, v |-> 0]
    /\ currentDate = DatePlaceholder
    /\ currentTimeOnly = TimePlaceholder
    /\ currentTime = TimePlaceholder
    /\ timeCategories = << >>
    /\ temperatureData = << >>
    /\ humidityData = << >>
    /\ pressureData = << >>
    /\ startDate = NoDate
    /\ endDate = NoDate
    /\ allSensorData = << >>
    /\ isFilterActive = FALSE
    /\ charts = << >>
    /\ combinedChart = NoChart
    /\ eventListeners = {}
    /\ unsubscribeFirestore = Null
    /\ isResetting = FALSE
    /\ phase = "created"
    /\ subscribed = FALSE
    /\ series = [c \in Members |-> << >>]
    /\ categories = [c \in Members |-> << >>]
    /\ extremes = [c \in Members |-> FullExtent]
    /\ tooltip = [c \in Members |-> Undef]
    /\ stack = << >>
    /\ attached = {}
    /\ destroyed = {}
    /\ derivedFrom = << >>
    /\ obs = NoObs
    /\ turn = NewTurn

(***************************************************************************)
(* updateCharts: push the derived arrays into the charts, in place.         *)
(***************************************************************************)
InCharts(c) == \E i \in 1..Len(charts) : charts[i] = c

UpdatedSeries(temp, hum, pres) ==
    [c \in Members |->
        IF c \in MetricCharts /\ InCharts(c) /\ Len(series[c]) >= 1
        THEN <<CASE c = TempChart -> temp [] c = HumidityChart -> hum [] OTHER -> pres>>
        ELSE IF c = CombinedChart /\ combinedChart # NoChart
        THEN <<temp, hum, pres>>
        ELSE series[c]]

\* The axis categories left as they were.
StaleCategories(cats) == categories

\* chart.xAxis[0].setCategories(timeCategories.value)
UpdatedCategories(cats) ==
    [c \in Members |->
        IF c \in MetricCharts /\ InCharts(c) /\ Len(series[c]) >= 1 THEN cats
        ELSE IF c = CombinedChart /\ combinedChart # NoChart THEN cats
        ELSE categories[c]]

(***************************************************************************)
(* processAndDisplayData(data), with updateCurrentReadings and updateCharts *)
(* which it calls.  Returns early on an empty view; a TypeError raised by   *)
(* the label callback leaves every ref as it was.                            *)
(***************************************************************************)
ProcessAndDisplayData(data) ==
    IF data = << >> \/ AnyLabelThrows(data)
    THEN UNCHANGED <<dataVars, series, categories>>
    ELSE /\ timeCategories' = MapLabels(data)
         /\ temperatureData' = MapTemperature(data)
         /\ humidityData' = MapHumidity(data)
         /\ pressureData' = MapPressure(data)
         /\ currentTemperature' = FixedOrZero(Latest(data).temperature)
         /\ currentHumidity' = FixedOrZero(Latest(data).humidity)
         /\ currentPressure' = FixedOrZero(Latest(data).pressure)
         /\ currentDate' = CurrentDateOf(Latest(data))
         /\ currentTimeOnly' = CurrentTimeOnlyOf(Latest(data))
         /\ currentTime' = IF Latest(data).timestamp # TsAbsent
                           THEN Latest(data).timestamp ELSE TimePlaceholder
         /\ derivedFrom' = data
         /\ series' = UpdatedSeries(MapTemperature(data), MapHumidity(data), MapPressure(data))
         /\ categories' = UpdatedCategories(MapLabels(data))

DataObs(op, data) == [op |-> op, threw |-> (data # << >> /\ AnyLabelThrows(data))]

(***************************************************************************)
(* The onSnapshot callback: one full-replacement push from the source.      *)
(***************************************************************************)
\* The pushed records appended to the stored ones.
Appended(old, realSensorData) == old \o realSensorData

\* allSensorData.value = realSensorData
Replaced(old, realSensorData) == realSensorData

\* The whole snapshot displayed whatever the filter.
PushedViewUnfiltered(realSensorData) == realSensorData

\* if (!isFilterActive.value) processAndDisplayData(realSensorData)
\* else processAndDisplayData(filteredSensorData.value)
PushedView(realSensorData) ==
    IF ~isFilterActive THEN realSensorData
    ELSE FilteredOf(realSensorData, isFilterActive, startDate, endDate)

OnSnapshot(realSensorData) ==
    /\ Idle
    /\ subscribed
    /\ allSensorData' = Replaced(allSensorData, realSensorData)
    /\ LET view == PushedView(realSensorData)
       IN /\ ProcessAndDisplayData(view)
          /\ obs' = [op |-> "push", threw |-> DataObs("push", view).threw,
                     pushed |-> realSensorData]
    /\ turn' = NewTurn
    /\ UNCHANGED <<filterVars, chartVars, syncVars, tooltip>>

Push(snapshots) == \E snapshot \in snapshots : OnSnapshot(snapshot)

(***************************************************************************)
(* The date inputs (v-model) and the filter buttons.                        *)
(***************************************************************************)
SetStartDate ==
    /\ Idle
    /\ phase = "mounted"
    /\ \E d \in DateInputs : d # startDate /\ startDate' = d
    /\ obs' = NoObs
    /\ UNCHANGED <<dataVars, endDate, isFilterActive, allSensorData, chartVars, series,
                   categories, syncVars, tooltip, turn>>

SetEndDate ==
    /\ Idle
    /\ phase = "mounted"
    /\ \E d \in DateInputs : d # endDate /\ endDate' = d
    /\ obs' = NoObs
    /\ UNCHANGED <<dataVars, startDate, isFilterActive, allSensorData, chartVars, series,
                   categories, syncVars, tooltip, turn>>

\* Rejection only when both dates are missing.
DateMissingBoth(start, end) == start = NoDate /\ end = NoDate

\* !startDate.value || !endDate.value
DateMissing(start, end) == start = NoDate \/ end = NoDate

\* The store narrowed to the filtered view.
StoreNarrowed(all, view) == view

\* applyDateFilter passes filteredSensorData on and assigns nothing to
\* allSensorData.
StoreUnderFilter(all, view) == all

ApplyDateFilter ==
    /\ Idle
    /\ phase = "mounted"
    /\ IF DateMissing(startDate, endDate)
       THEN /\ obs' = [op |-> "applyRejected"]
            /\ UNCHANGED <<dataVars, series, categories, isFilterActive, allSensorData>>
       ELSE /\ isFilterActive' = TRUE
            /\ LET view == FilteredOf(allSensorData, TRUE, startDate, endDate)
               IN /\ ProcessAndDisplayData(view)
                  /\ allSensorData' = StoreUnderFilter(allSensorData, view)
                  /\ obs' = DataObs("apply", view)
    /\ turn' = NewTurn
    /\ UNCHANGED <<startDate, endDate, chartVars, syncVars, tooltip>>

ResetFilters ==
    /\ Idle
    /\ phase = "mounted"
    /\ startDate' = NoDate
    /\ endDate' = NoDate
    /\ isFilterActive' = FALSE
    /\ ProcessAndDisplayData(allSensorData)
    /\ obs' = DataObs("reset", allSensorData)
    /\ turn' = NewTurn
    /\ UNCHANGED <<allSensorData, chartVars, syncVars, tooltip>>


(***************************************************************************)
(* Lifecycle hooks.                                                         *)
(***************************************************************************)
Listeners == {[el |-> c, eventType |-> t] : c \in MetricCharts, t \in MoveEvents \cup {"mouseleave"}}

OnMounted ==
    /\ phase = "created"
    /\ phase' = "mounted"
    /\ unsubscribeFirestore' = UnsubscribeFn
    /\ subscribed' = TRUE
    /\ charts' = [i \in 1..NumMetricCharts |-> i]
    /\ combinedChart' = CombinedChart
    /\ series' = [c \in Members |->
                    CASE c = TempChart -> <<temperatureData>>
                      [] c = HumidityChart -> <<humidityData>>
                      [] c = PressureChart -> <<pressureData>>
                      [] OTHER -> <<temperatureData, humidityData, pressureData>>]
    /\ categories' = [c \in Members |-> timeCategories]
    /\ eventListeners' = Listeners
    /\ attached' = Listeners
    /\ obs' = NoObs
    /\ turn' = NewTurn
    /\ UNCHANGED <<dataVars, filterVars, allSensorData, destroyed, syncVars, tooltip>>

\* The hook ends with the error of query() or onSnapshot(): no subscription,
\* no chart and no listener was set up.
OnMountedFailed ==
    /\ phase = "created"
    /\ phase' = "mountFailed"
    /\ obs' = NoObs
    /\ turn' = NewTurn
    /\ UNCHANGED <<dataVars, filterVars, allSensorData, charts, combinedChart, eventListeners,
                   unsubscribeFirestore, subscribed, attached, destroyed, series, categories,
                   syncVars, tooltip>>

\* The charts array left as it was.
KeptCharts == charts

\* charts = []
ClearedCharts == << >>

\* The unsubscribe call left out.
UnsubscribeNever(fn) == FALSE

\* if (unsubscribeFirestore)
UnsubscribeGuard(fn) == fn # Null

\* The body of the onBeforeUnmount hook.  obs records what the run did: the
\* attached listeners it removed, the charts it called destroy on, whether it
\* stopped a live subscription, and whether it ended with a TypeError
\* (calling a null unsubscribeFirestore).
Teardown ==
    /\ Idle
    /\ phase' = "unmounted"
    /\ IF UnsubscribeGuard(unsubscribeFirestore) /\ unsubscribeFirestore = Null
       THEN /\ obs' = [op |-> "teardown", threw |-> TRUE, stopped |-> FALSE,
                       removed |-> {}, destroyCalls |-> {}]
            /\ UNCHANGED <<subscribed, attached, destroyed, eventListeners, charts,
                           combinedChart>>
       ELSE /\ subscribed' = IF UnsubscribeGuard(unsubscribeFirestore) THEN FALSE ELSE subscribed
            /\ attached' = attached \ eventListeners
            /\ destroyed' = destroyed \cup {charts[i] : i \in 1..Len(charts)}
                                      \cup (IF combinedChart # NoChart THEN {combinedChart} ELSE {})
            /\ eventListeners' = {}
            /\ charts' = ClearedCharts
            /\ combinedChart' = NoChart
            /\ obs' = [op |-> "teardown", threw |-> FALSE,
                       stopped |-> UnsubscribeGuard(unsubscribeFirestore) /\ subscribed,
                       removed |-> attached \cap eventListeners,
                       destroyCalls |-> {charts[i] : i \in 1..Len(charts)} \cup
                                        (IF combinedChart # NoChart THEN {combinedChart} ELSE {})]
    /\ turn' = NewTurn
    /\ UNCHANGED <<dataVars, filterVars, allSensorData, unsubscribeFirestore, series,
                   categories, syncVars, tooltip>>

OnBeforeUnmount ==
    /\ phase \in {"mounted", "mountFailed"}
    /\ Teardown

\* The hook's body run once more on the unmounted component.
TeardownAgain ==
    /\ phase = "unmounted"
    /\ Teardown

(***************************************************************************)
(* Call stack of a handler turn.  The top frame is the last element.        *)
(***************************************************************************)
BaseFrame ==
    [fn |-> "", pc |-> "", chart |-> NoChart, min |-> Undef, max |-> Undef,
     trigger |-> "none", i |-> 0, all |-> << >>, caller |-> "", callerTrigger |-> "none",
     origin |-> NoChart, via |-> "", rep |-> FullExtent, calls |-> [m \in Members |-> 0]]

\* axis.setExtremes(min, max, undefined, false, {trigger}) on the x axis of chart c
SetExtremesFrame(c, min, max, trigger, caller, callerTrigger) ==
    [BaseFrame EXCEPT !.fn = "setExtremes", !.pc = "fire", !.chart = c, !.min = min,
                      !.max = max, !.trigger = trigger, !.caller = caller,
                      !.callerTrigger = callerTrigger]

\* syncExtremes.call(this, e): thisChart is this.chart, (min, max, trigger) are e's
\* members; origin, via and rep record which member reported what.
SyncExtremesFrame(thisChart, min, max, trigger, origin, via, rep) ==
    [BaseFrame EXCEPT !.fn = "syncExtremes", !.pc = "enter", !.chart = thisChart, !.min = min,
                      !.max = max, !.trigger = trigger, !.origin = origin, !.via = via,
                      !.rep = rep]

SyncResetZoomFrame == [BaseFrame EXCEPT !.fn = "syncResetZoom", !.pc = "enter"]

\* The widget dispatching a chart 'selection' event of chart c for window r.
SelectionFrame(c, r) ==
    [BaseFrame EXCEPT !.fn = "selection", !.pc = "fire", !.chart = c, !.min = r.min, !.max = r.max]

Top == stack[Len(stack)]
Popped == SubSeq(stack, 1, Len(stack) - 1)
WithTop(f) == Append(Popped, f)
Running(fn, pc) == stack # << >> /\ Top.fn = fn /\ Top.pc = pc
CanCall == Len(stack) < MaxDepth

\* The combined chart left out of the broadcast.
AllChartsMetricOnly == charts

\* allCharts = [...charts]; if (combinedChart) allCharts.push(combinedChart)
AllCharts == IF combinedChart # NoChart THEN Append(charts, combinedChart) ELSE charts

(***************************************************************************)
(* User gestures on a chart, as the widget turns them into events.          *)
(***************************************************************************)
Windows == Ranges \cup {FullExtent}

\* Navigator / scrollbar / pan on any chart, zoom and reset-zoom on the
\* combined chart: the widget calls setExtremes on the chart's own x axis.
UserSetExtremes ==
    /\ Idle
    /\ phase = "mounted"
    /\ \E c \in Members, r \in Windows :
          stack' = <<SetExtremesFrame(c, r.min, r.max, "zoom", "user", "none")>>
    /\ obs' = NoObs
    /\ turn' = NewTurn
    /\ UNCHANGED <<dataVars, filterVars, allSensorData, chartVars, series, categories,
                   isResetting, extremes, tooltip>>

\* Drag-zoom or the reset-zoom button on a metric chart: a 'selection' event.
UserSelection ==
    /\ Idle
    /\ phase = "mounted"
    /\ \E c \in MetricCharts, r \in Windows : stack' = <<SelectionFrame(c, r)>>
    /\ obs' = NoObs
    /\ turn' = NewTurn
    /\ UNCHANGED <<dataVars, filterVars, allSensorData, chartVars, series, categories,
                   isResetting, extremes, tooltip>>

\* chart.events.selection = syncExtremes: this is the chart, e has no min/max/trigger.
SelectionFire ==
    /\ Running("selection", "fire")
    /\ CanCall
    /\ stack' = Append(WithTop([Top EXCEPT !.pc = "default"]),
                       SyncExtremesFrame(NoChart, Undef, Undef, "none", Top.chart, "selection",
                                         [min |-> Top.min, max |-> Top.max]))
    /\ obs' = NoObs
    /\ UNCHANGED <<dataVars, filterVars, allSensorData, chartVars, series, categories,
                   isResetting, extremes, tooltip, turn>>

\* The default action of the selection event: zoom the chart's own x axis.
SelectionDefault ==
    /\ Running("selection", "default")
    /\ stack' = WithTop(SetExtremesFrame(Top.chart, Top.min, Top.max, "zoom", "user", "none"))
    /\ obs' = NoObs
    /\ UNCHANGED <<dataVars, filterVars, allSensorData, chartVars, series, categories,
                   isResetting, extremes, tooltip, turn>>


(***************************************************************************)
(* axis.setExtremes and the handlers it fires.                              *)
(***************************************************************************)
\* The widget fires the axis' 'setExtremes' event: xAxis.events.setExtremes is
\* syncExtremes, called with this = the axis and e = {min, max, trigger}.
SetExtremesFire ==
    /\ Running("setExtremes", "fire")
    /\ CanCall
    /\ stack' = Append(WithTop([Top EXCEPT !.pc = "apply"]),
                       SyncExtremesFrame(Top.chart, Top.min, Top.max, Top.trigger, Top.chart,
                                         "axis", [min |-> Top.min, max |-> Top.max]))
    /\ obs' = NoObs
    /\ UNCHANGED <<dataVars, filterVars, allSensorData, chartVars, series, categories,
                   isResetting, extremes, tooltip, turn>>

\* The marker test left out.
IsSyntheticUnchecked(trigger) == FALSE

\* if (e.trigger === 'syncExtremes') return
IsSynthetic(trigger) == trigger = "syncExtremes"

\* Only views that are not zoomed yet take the window.
IsSyncTargetUnzoomed(chart, thisChart) ==
    chart # thisChart /\ chart \notin destroyed /\ IsUnset(extremes[chart])

\* chart !== this.chart && chart.xAxis[0].setExtremes
IsSyncTarget(chart, thisChart) == chart # thisChart /\ chart \notin destroyed

SyncExtremesEnter ==
    /\ Running("syncExtremes", "enter")
    /\ IF IsSynthetic(Top.trigger)
       THEN /\ stack' = Popped
            /\ obs' = [op |-> "syntheticReturn", chart |-> Top.chart]
       ELSE /\ stack' = WithTop([Top EXCEPT !.pc = "loop", !.i = 1, !.all = AllCharts])
            /\ obs' = NoObs
    /\ UNCHANGED <<dataVars, filterVars, allSensorData, chartVars, series, categories,
                   isResetting, extremes, tooltip, turn>>

\* One iteration of allCharts.forEach, or the return after the last one.
SyncExtremesLoop ==
    /\ Running("syncExtremes", "loop")
    /\ IF Top.i > Len(Top.all)
       THEN /\ stack' = Popped
            /\ obs' = [op |-> "broadcast", origin |-> Top.origin, via |-> Top.via,
                       rep |-> Top.rep, arg |-> [min |-> Top.min, max |-> Top.max],
                       all |-> Top.all, calls |-> Top.calls]
       ELSE LET chart == Top.all[Top.i]
            IN IF IsSyncTarget(chart, Top.chart)
               THEN /\ CanCall
                    /\ stack' = Append(
                          WithTop([Top EXCEPT !.i = @ + 1, !.calls[chart] = @ + 1]),
                          SetExtremesFrame(chart, Top.min, Top.max, "syncExtremes",
                                           "syncExtremes", Top.trigger))
                    /\ obs' = NoObs
               ELSE /\ stack' = WithTop([Top EXCEPT !.i = @ + 1])
                    /\ obs' = NoObs
    /\ UNCHANGED <<dataVars, filterVars, allSensorData, chartVars, series, categories,
                   isResetting, extremes, tooltip, turn>>

\* What the 'afterSetExtremes' event reports for an axis: no min / max when the
\* axis is at full extent.
Reported(window) == IF IsUnset(window) THEN FullExtent ELSE window

\* e.min === undefined && e.max === undefined && !isResetting
DetectsReset(e, resetting) == e.min = Undef /\ e.max = Undef /\ ~resetting

\* The widget stores the extremes and fires 'afterSetExtremes'; the handler
\* afterSetExtremes calls syncResetZoom when it detects a reset.
SetExtremesApply ==
    /\ Running("setExtremes", "apply")
    /\ LET window == [min |-> Top.min, max |-> Top.max]
           e == Reported(window)
           starts == DetectsReset(e, isResetting)
       IN /\ extremes' = [extremes EXCEPT ![Top.chart] = window]
          /\ stack' = IF starts THEN WithTop(SyncResetZoomFrame) ELSE Popped
          /\ obs' = [op |-> "report", chart |-> Top.chart, reset |-> IsUnset(e),
                     resetting |-> isResetting, starts |-> starts, trigger |-> Top.trigger,
                     caller |-> Top.caller, window |-> window, was |-> extremes[Top.chart]]
    /\ UNCHANGED <<dataVars, filterVars, allSensorData, chartVars, series, categories,
                   isResetting, tooltip, turn>>

\* The guard flag left unset when the pass starts.
GuardOnEnterUnset == FALSE

\* isResetting = true
GuardOnEnter == TRUE

\* if (isResetting) return; isResetting = true
SyncResetZoomEnter ==
    /\ Running("syncResetZoom", "enter")
    /\ IF isResetting
       THEN /\ stack' = Popped
            /\ UNCHANGED <<isResetting, turn>>
       ELSE /\ isResetting' = GuardOnEnter
            /\ stack' = WithTop([Top EXCEPT !.pc = "loop", !.i = 1])
            /\ turn' = [turn EXCEPT !.passes = @ + 1]
    /\ obs' = NoObs
    /\ UNCHANGED <<dataVars, filterVars, allSensorData, chartVars, series, categories,
                   extremes, tooltip>>

\* chart && chart.xAxis && chart.xAxis[0]
HasAxis(chart) == chart # NoChart /\ chart \notin destroyed

\* The guard flag left set when the pass ends.
GuardOnExitSet == TRUE

\* isResetting = false
GuardOnExit == FALSE

\* charts.forEach(...), then the combined chart, then isResetting = false.
SyncResetZoomLoop ==
    /\ Running("syncResetZoom", "loop")
    /\ LET n == Len(charts)
           chart == IF Top.i <= n THEN charts[Top.i] ELSE combinedChart
       IN IF Top.i <= n + 1
          THEN /\ IF HasAxis(chart)
                  THEN /\ CanCall
                       /\ stack' = Append(
                             WithTop([Top EXCEPT !.i = @ + 1, !.calls[chart] = @ + 1]),
                             SetExtremesFrame(chart, Null, Null, "none", "syncResetZoom", "none"))
                  ELSE stack' = WithTop([Top EXCEPT !.i = @ + 1])
               /\ obs' = NoObs
               /\ UNCHANGED isResetting
          ELSE /\ isResetting' = GuardOnExit
               /\ stack' = Popped
               /\ obs' = [op |-> "passEnd", calls |-> Top.calls]
    /\ UNCHANGED <<dataVars, filterVars, allSensorData, chartVars, series, categories,
                   extremes, tooltip, turn>>

(***************************************************************************)
(* Pointer listeners registered in onMounted.                               *)
(***************************************************************************)
\* chart.series[0].searchPoint(e, true): the point of the chart nearest to the
\* pointer's x, or none when the series has no point.
SearchPoint(c, k) ==
    IF Len(series[c]) = 0 \/ Len(series[c][1]) = 0 THEN Undef
    ELSE IF k < Len(series[c][1]) THEN k ELSE Len(series[c][1]) - 1

\* The charts syncTooltip and the mouseleave handler iterate over.
TooltipTargets == {charts[i] : i \in 1..Len(charts)}

\* mousemove / touchmove / touchstart over chart c, resolving to data index k:
\* syncTooltip(charts[idx].pointer.normalize(e))
PointerMove ==
    /\ Idle
    /\ \E l \in attached, k \in 0..MaxIndex :
          /\ l.eventType \in MoveEvents
          /\ SearchPoint(l.el, k) = k
          /\ tooltip' = [c \in Members |->
                            IF c \in TooltipTargets /\ Len(series[c]) >= 1 /\ SearchPoint(c, k) # Undef
                            THEN SearchPoint(c, k) ELSE tooltip[c]]
          /\ obs' = [op |-> "move", el |-> l.el, k |-> k,
                     shown |-> [c \in Members |->
                                  IF c \in TooltipTargets /\ Len(series[c]) >= 1
                                     /\ SearchPoint(c, k) # Undef
                                  THEN 1 ELSE 0],
                     at |-> [c \in Members |-> IF c \in TooltipTargets THEN SearchPoint(c, k) ELSE Undef]]
    /\ turn' = NewTurn
    /\ UNCHANGED <<dataVars, filterVars, allSensorData, chartVars, series, categories, syncVars>>

\* mouseleave on a chart container: hide tooltip and crosshair of every chart.
PointerLeave ==
    /\ Idle
    /\ \E l \in attached :
          /\ l.eventType = "mouseleave"
          /\ tooltip' = [c \in Members |-> IF c \in TooltipTargets THEN Undef ELSE tooltip[c]]
          /\ obs' = [op |-> "leave", el |-> l.el,
                     hidden |-> [c \in Members |-> IF c \in TooltipTargets THEN 1 ELSE 0]]
    /\ turn' = NewTurn
    /\ UNCHANGED <<dataVars, filterVars, allSensorData, chartVars, series, categories, syncVars>>

(***************************************************************************)
(* exportToCSV reads the current view and changes no state of the view.     *)
(***************************************************************************)
ExportToCSV ==
    /\ Idle
    /\ phase = "mounted"
    /\ obs' = [op |-> "export",
               rows |-> Len(IF isFilterActive THEN filteredSensorData ELSE allSensorData)]
    /\ turn' = NewTurn
    /\ UNCHANGED <<dataVars, filterVars, allSensorData, chartVars, series, categories,
                   syncVars, tooltip>>

(***************************************************************************)
(* Specifications.                                                          *)
(***************************************************************************)
SyncStep ==
    \/ SelectionFire
    \/ SelectionDefault
    \/ SetExtremesFire
    \/ SyncExtremesEnter
    \/ SyncExtremesLoop
    \/ SetExtremesApply
    \/ SyncResetZoomEnter
    \/ SyncResetZoomLoop

\* The synchronisation of zoom windows.
SyncNext ==
    \/ OnMounted
    \/ OnBeforeUnmount
    \/ UserSetExtremes
    \/ UserSelection
    \/ SyncStep

SyncSpec == Init /\ [][SyncNext]_vars

\* A handler that has been entered runs on: the widget and the handlers are
\* synchronous code of one turn.
SyncFairSpec == Init /\ [][SyncNext]_vars /\ WF_vars(SyncStep)

\* The data pipeline under the date filter.
DataNext ==
    \/ OnMounted
    \/ Push(TimedSnapshots)
    \/ SetStartDate
    \/ SetEndDate
    \/ ApplyDateFilter
    \/ ResetFilters

DataSpec == Init /\ [][DataNext]_vars

\* The data pipeline under the date filter, with snapshots that also hold a
\* timestamp without a time part.
MixedSnapshots ==
    {<<ReadingNoTime>>, <<ReadingA, ReadingNoTime>>, <<ReadingNoTime, ReadingB>>}

LiveNext ==
    \/ OnMounted
    \/ Push(TimedSnapshots \cup MixedSnapshots)
    \/ SetStartDate
    \/ SetEndDate
    \/ ApplyDateFilter
    \/ ResetFilters

LiveSpec == Init /\ [][LiveNext]_vars

\* Ingestion of every kind of snapshot, export and teardown.
IngestNext ==
    \/ OnMounted
    \/ OnBeforeUnmount
    \/ Push(Snapshots)
    \/ ExportToCSV

IngestSpec == Init /\ [][IngestNext]_vars

\* The tooltip broadcast over the pushed data.
TooltipNext ==
    \/ OnMounted
    \/ OnBeforeUnmount
    \/ Push(Snapshots)
    \/ PointerMove
    \/ PointerLeave

TooltipSpec == Init /\ [][TooltipNext]_vars

\* Mount, failed mount and (repeated) teardown around pushes and pointer
\* events.
LifecycleNext ==
    \/ OnMounted
    \/ OnMountedFailed
    \/ OnBeforeUnmount
    \/ TeardownAgain
    \/ Push(TimedSnapshots)
    \/ PointerMove
    \/ PointerLeave

LifecycleSpec == Init /\ [][LifecycleNext]_vars

\* Zoom synchronisation interleaved with data refreshes.
RefreshSnapshots == {<< >>, <<ReadingA, ReadingB>>}

ViewNext ==
    \/ SyncNext
    \/ Push(RefreshSnapshots)
    \/ SetStartDate
    \/ SetEndDate
    \/ ApplyDateFilter
    \/ ResetFilters

ViewSpec == Init /\ [][ViewNext]_vars

\* Every handler of the mounted view: zoom synchronisation, data refreshes,
\* the filter and the export.
WholeNext ==
    \/ ViewNext
    \/ ExportToCSV

WholeSpec == Init /\ [][WholeNext]_vars


(***************************************************************************)
(* Properties.                                                              *)
(***************************************************************************)
LiveMembers ==
    {charts[i] : i \in 1..Len(charts)} \cup (IF combinedChart # NoChart THEN {combinedChart} ELSE {})
Frames == {stack[i] : i \in 1..Len(stack)}
Propagating == \E f \in Frames : f.fn = "syncExtremes" /\ f.pc = "loop"
PassDepth == Cardinality({i \in 1..Len(stack) : stack[i].fn = "syncResetZoom" /\ stack[i].pc = "loop"})

\* C1: a setExtremes call that syncExtremes issued with the marker
\* trigger = 'syncExtremes' never makes the receiving view's syncExtremes
\* handler issue a further setExtremes call: no call on the stack was issued
\* by a handler invocation whose own event carried the marker, and no such
\* invocation is inside its broadcast loop.
C1_SyntheticNeverRebroadcast ==
    \A f \in Frames :
        /\ (f.fn = "setExtremes" /\ f.caller = "syncExtremes") => f.callerTrigger # "syncExtremes"
        /\ (f.fn = "syncExtremes" /\ f.trigger = "syncExtremes") => f.pc = "enter"

\* A marked call has reached a receiving view in the group of four and its
\* handler has returned.
C1_Witness ==
    /\ obs.op = "syntheticReturn"
    /\ Cardinality(LiveMembers) >= 3
    /\ Running("setExtremes", "apply")
    /\ Top.trigger = "syncExtremes"

\* C2: the reset pass is never active more than one level deep; a reset
\* report that arrives while isResetting is true starts no pass, and when a
\* pass ends no other pass is pending.
C2_ResetPassOneLevel ==
    /\ PassDepth <= 1
    /\ (obs.op = "report" /\ obs.reset /\ obs.resetting) => ~Running("syncResetZoom", "enter")
    /\ obs.op = "passEnd" => \A f \in Frames : f.fn # "syncResetZoom"

\* A reset report has arrived during a pass and the pass goes on.
C2_Witness ==
    /\ obs.op = "report"
    /\ obs.reset
    /\ obs.resetting
    /\ PassDepth = 1
    /\ isResetting

\* C3: at most one of Propagating (a syncExtremes broadcast loop in progress)
\* and Resetting (isResetting = true) is active.
C3_PropagatingExcludesResetting == ~(Propagating /\ isResetting)

\* C4: a non-synthetic report with concrete min and max, through either
\* registration of syncExtremes, makes exactly one marked setExtremes(min, max)
\* call on every other member and none on the originating member.
C4_BroadcastToOthersOnce ==
    (obs.op = "broadcast" /\ ~IsUnset(obs.rep)) =>
        /\ obs.arg = obs.rep
        /\ obs.calls[obs.origin] = 0
        /\ \A m \in LiveMembers \ {obs.origin} : obs.calls[m] = 1

\* C5: a reset report from outside the reset pass makes syncResetZoom call
\* setExtremes(unset) on every member, and at the end of the handling turn
\* every member is at full extent.
C5_ResetReachesAll ==
    /\ obs.op = "passEnd" => \A m \in LiveMembers : obs.calls[m] = 1
    /\ (Idle /\ turn.passes > 0) => \A m \in LiveMembers : IsUnset(extremes[m])

\* C6: whenever no handler is running, all live member views hold the same
\* extremes: the same {min, max} pair, or all unset.
C6_Lockstep ==
    Idle => \A a, b \in LiveMembers : Reported(extremes[a]) = Reported(extremes[b])

\* All four views share a zoom window after a zoom, with data pushed and a
\* filter applied.
C6_Witness ==
    /\ Idle
    /\ Cardinality(LiveMembers) = 4
    /\ \A m \in LiveMembers : extremes[m] \in Ranges
    /\ isFilterActive
    /\ temperatureData # << >>

\* C7: a pointer move that resolves to index k shows the tooltip at k exactly
\* once on every live member of the sync group, the combined view included.
C7_TooltipOnEveryMember ==
    obs.op = "move" => \A m \in LiveMembers : obs.shown[m] = 1 /\ tooltip[m] = obs.k

\* C8: after each push is processed (without an error) the label array and
\* the three metric arrays have the length of the current view of the pushed
\* snapshot.
C8_LengthsMatchView ==
    (obs.op = "push" /\ ~obs.threw) =>
        /\ Len(timeCategories) = Len(filteredSensorData)
        /\ Len(temperatureData) = Len(filteredSensorData)
        /\ Len(humidityData) = Len(filteredSensorData)
        /\ Len(pressureData) = Len(filteredSensorData)

\* C9: the label array and the three metric arrays always have the same
\* length and entry i of each comes from reading i of the view they were last
\* computed from.
C9_SeriesAligned ==
    /\ Len(timeCategories) = Len(derivedFrom)
    /\ Len(temperatureData) = Len(derivedFrom)
    /\ Len(humidityData) = Len(derivedFrom)
    /\ Len(pressureData) = Len(derivedFrom)
    /\ \A i \in 1..Len(derivedFrom) :
          /\ timeCategories[i] = Label(derivedFrom[i])
          /\ temperatureData[i] = OrZero(derivedFrom[i].temperature)
          /\ humidityData[i] = OrZero(derivedFrom[i].humidity)
          /\ pressureData[i] = OrZero(derivedFrom[i].pressure)

\* Two different readings, one without a humidity value, were derived under
\* an active filter.
C9_Witness ==
    /\ Len(derivedFrom) = 2
    /\ derivedFrom[1] # derivedFrom[2]
    /\ \E i \in 1..2 : IsNullish(derivedFrom[i].humidity)
    /\ isFilterActive
    /\ obs.op = "push"

\* The calendar day of a well-formed timestamp, as <<y, m, d>>.
DayOf(ts) == <<ts[1][3], ts[1][2], ts[1][1]>>
DayLeq(a, b) ==
    \/ a[1] < b[1]
    \/ a[1] = b[1] /\ a[2] < b[2]
    \/ a[1] = b[1] /\ a[2] = b[2] /\ a[3] <= b[3]
WellFormed(ts) == Len(ts) = 2 /\ Len(ts[1]) = 3 /\ Len(ts[2]) = 3
OnDaysBetween(reading, start, end) ==
    /\ WellFormed(reading.timestamp)
    /\ DayLeq(start, DayOf(reading.timestamp))
    /\ DayLeq(DayOf(reading.timestamp), end)

\* C10: with a filter {start, end} active the current view is the
\* subsequence, in original order, of the backing readings whose timestamp
\* lies on a day from start to end inclusive; for readings at 01/01/2025
\* 10:00:00 and 02/01/2025 10:00:00 and start = end = 01/01/2025 it is exactly
\* the first reading.
C10_FilterIsDayRange ==
    (isFilterActive /\ startDate # NoDate /\ endDate # NoDate) =>
        /\ filteredSensorData =
              SelectSeq(allSensorData, LAMBDA r : OnDaysBetween(r, startDate, endDate))
        /\ (allSensorData = <<ReadingA, ReadingB>> /\ startDate = Date1 /\ endDate = Date1)
              => filteredSensorData = <<ReadingA>>

\* The filter 01/01/2025..01/01/2025 was applied to the two example readings
\* and the first one was displayed.
C10_Witness ==
    /\ isFilterActive
    /\ startDate = Date1
    /\ endDate = Date1
    /\ allSensorData = <<ReadingA, ReadingB>>
    /\ derivedFrom = <<ReadingA>>
    /\ obs.op = "apply"

\* The display value of a measurement: its one-decimal text, or the number 0
\* when the measurement is missing.
Shown(v) == IF v \in {Undef, Null} THEN [str |-> FALSE, v |-> 0] ELSE [str |-> TRUE, v |-> v]

\* C11: after a push, an applyDateFilter or a resetFilters that leaves a
\* non-empty current view, the current-readings display (temperature,
\* humidity, pressure, date, time) is that of the last element of the current
\* view: the filtered view under an active filter, the backing sequence
\* otherwise.
C11_CurrentFromLatest ==
    (obs.op \in {"push", "apply", "reset"} /\ filteredSensorData # << >>) =>
        LET latest == filteredSensorData[Len(filteredSensorData)]
        IN /\ currentTemperature = Shown(latest.temperature)
           /\ currentHumidity = Shown(latest.humidity)
           /\ currentPressure = Shown(latest.pressure)
           /\ currentDate = (IF latest.timestamp = << >> THEN DatePlaceholder
                             ELSE latest.timestamp[1])
           /\ currentTimeOnly = (IF Len(latest.timestamp) < 2 THEN TimePlaceholder
                                 ELSE latest.timestamp[2])

\* C12: an applyDateFilter with exactly one of startDate and endDate set is
\* rejected and changes nothing: the filter flag and both dates, the backing
\* sequence, the derived arrays, the current readings and every chart's
\* series, categories, extremes and tooltip are as before.
C12_PartialApplyRejected ==
    [][(obs'.op \in {"apply", "applyRejected"} /\ (startDate = NoDate) # (endDate = NoDate))
         => /\ obs'.op = "applyRejected"
            /\ UNCHANGED <<filterVars, allSensorData, dataVars, series, categories,
                           chartVars, syncVars, tooltip>>]_vars

\* An apply with only the start date set was rejected while a filter was
\* active and data was displayed.
C12_Witness ==
    /\ obs.op = "applyRejected"
    /\ startDate # NoDate
    /\ endDate = NoDate
    /\ isFilterActive
    /\ temperatureData # << >>

\* C13: in every reachable state the filter is fully active (isFilterActive
\* with both dates set) or fully inactive: isFilterActive is never true with
\* a date missing.
C13_FilterAllOrNothing ==
    isFilterActive => startDate # NoDate /\ endDate # NoDate

\* The charts that were created at mount.
ChartsCreated == {c \in Members : series[c] # << >>}

\* C14: running the teardown a second time has no further effect: it
\* removes no listener, destroys no chart, stops no subscription and changes
\* nothing else, so each destroy, each removal and the unsubscribe takes
\* effect once; and no teardown run ends with an error, also when the
\* subscription was never established.
C14_TeardownIdempotent ==
    [][obs'.op = "teardown" =>
         /\ ~obs'.threw
         /\ phase = "unmounted" =>
               /\ obs'.removed = {}
               /\ obs'.destroyCalls = {}
               /\ ~obs'.stopped
               /\ UNCHANGED <<dataVars, filterVars, allSensorData, chartVars, series,
                              categories, syncVars, tooltip>>]_vars

\* The teardown ran again after the run that destroyed all four charts of a
\* mounted component with data.
C14_Witness ==
    /\ obs.op = "teardown"
    /\ obs.destroyCalls = {}
    /\ destroyed = Members
    /\ ~subscribed
    /\ allSensorData # << >>

\* C15: once the teardown has run, the source's listener is detached and no
\* push changes the store, the derived arrays, the current readings or a
\* chart; no pointer listener registered at mount is attached; every chart
\* created at mount is destroyed.
C15_TeardownComplete ==
    [][/\ phase' = "unmounted" =>
             /\ ~subscribed'
             /\ attached' = {}
             /\ ChartsCreated' \subseteq destroyed'
       /\ phase = "unmounted" =>
             UNCHANGED <<allSensorData, dataVars, series, categories, tooltip>>]_vars

\* A component that had been subscribed, with listeners, charts and data, is
\* torn down.
C15_Witness ==
    /\ phase = "unmounted"
    /\ unsubscribeFirestore = UnsubscribeFn
    /\ ChartsCreated = Members
    /\ destroyed = Members
    /\ attached = {}
    /\ allSensorData # << >>
    /\ \E m \in Members : tooltip[m] # Undef

\* C17: every record whose timestamp is absent or unparsable is dropped
\* before the store is replaced: allSensorData only ever holds readings with
\* a complete date and time.
C17_MalformedDropped ==
    \A i \in 1..Len(allSensorData) : WellFormed(allSensorData[i].timestamp)

\* The label of a reading as described: DD/MM HH:MM of a complete timestamp,
\* empty for an absent or unparsable one.
LabelOrEmpty(reading) ==
    IF WellFormed(reading.timestamp)
    THEN <<SubSeq(reading.timestamp[1], 1, 2), SubSeq(reading.timestamp[2], 1, 2)>>
    ELSE << >>

\* C18: deriving the series is total: after a push with a non-empty current
\* view the derivation has not failed, the arrays are those of that view, and
\* a reading with an absent or unparsable timestamp has the empty label while
\* the other labels and the metric values are produced.
C18_LabelsTotal ==
    (obs.op = "push" /\ filteredSensorData # << >>) =>
        /\ ~obs.threw
        /\ derivedFrom = filteredSensorData
        /\ timeCategories = [i \in 1..Len(filteredSensorData) |-> LabelOrEmpty(filteredSensorData[i])]
        /\ Len(temperatureData) = Len(filteredSensorData)
        /\ Len(humidityData) = Len(filteredSensorData)
        /\ Len(pressureData) = Len(filteredSensorData)

\* A measurement, or 0 in the place of a missing or null one.
ValueOrZero(v) == IF v = Undef \/ v = Null THEN 0 ELSE v
TimestampUsable(reading) == reading.timestamp = << >> \/ Len(reading.timestamp) = 2

\* C19: entry i of each metric array is the measurement of reading i of the
\* derived view when it is present and 0 when it is missing or null; no
\* reading is dropped because of a missing measurement, and a pushed view
\* whose timestamps are absent or complete is always derived, whatever
\* measurements are missing.
C19_MissingMetricIsZero ==
    /\ Len(temperatureData) = Len(derivedFrom)
    /\ Len(humidityData) = Len(derivedFrom)
    /\ Len(pressureData) = Len(derivedFrom)
    /\ \A i \in 1..Len(derivedFrom) :
          /\ temperatureData[i] = ValueOrZero(derivedFrom[i].temperature)
          /\ humidityData[i] = ValueOrZero(derivedFrom[i].humidity)
          /\ pressureData[i] = ValueOrZero(derivedFrom[i].pressure)
    /\ (/\ obs.op = "push"
        /\ filteredSensorData # << >>
        /\ \A i \in 1..Len(filteredSensorData) : TimestampUsable(filteredSensorData[i]))
          => derivedFrom = filteredSensorData

\* A view with a null humidity in one reading and no temperature in the
\* other was pushed and derived.
C19_Witness ==
    /\ obs.op = "push"
    /\ derivedFrom = <<ReadingB, ReadingNoTs>>
    /\ humidityData[1] = 0
    /\ temperatureData[2] = 0
    /\ pressureData[1] = ReadingB.pressure

\* C20: after each push the backing sequence is exactly the pushed snapshot,
\* record for record in the delivered order: nothing of an earlier push is
\* left, nothing is merged, appended or reordered, so its last element is the
\* last record delivered.
C20_StoreIsSnapshot ==
    obs.op = "push" =>
        /\ allSensorData = obs.pushed
        /\ obs.pushed # << >> => Latest(allSensorData) = obs.pushed[Len(obs.pushed)]

\* A two-record snapshot replaced an earlier, different one whose derived
\* arrays are still displayed.
C20_Witness ==
    /\ obs.op = "push"
    /\ obs.threw
    /\ Len(obs.pushed) = 2
    /\ allSensorData = obs.pushed
    /\ derivedFrom # << >>
    /\ \A i \in 1..Len(derivedFrom) : derivedFrom[i] # allSensorData[1]

\* C21: the backing sequence is written only by the snapshot-push handler:
\* a step of applyDateFilter (accepted or rejected), resetFilters,
\* exportToCSV, a date input, a sync handler or the lifecycle hooks leaves
\* allSensorData as it was.
C21_StoreWrittenByPushOnly ==
    [][allSensorData' # allSensorData => obs'.op = "push"]_vars

\* A filter that hides part of a non-empty store was applied and the store
\* is still whole.
C21_Witness ==
    /\ obs.op = "apply"
    /\ allSensorData = <<ReadingA, ReadingB>>
    /\ derivedFrom = <<ReadingA>>
    /\ isFilterActive
    /\ \E m \in LiveMembers : extremes[m] \in Ranges

\* The series data a chart shows when it is fed the derived arrays.
SeriesOf(c, temp, hum, pres) ==
    CASE c = TempChart -> <<temp>>
      [] c = HumidityChart -> <<hum>>
      [] c = PressureChart -> <<pres>>
      [] OTHER -> <<temp, hum, pres>>

\* C22: a data refresh (a push, an accepted applyDateFilter or a
\* resetFilters) leaves every live view showing the derived arrays and labels
\* and changes neither the chart instances, nor any view's zoom extremes, nor
\* isResetting; it puts no handler on the call stack and runs no reset pass.
C22_RefreshKeepsZoom ==
    [][obs'.op \in {"push", "apply", "reset"} =>
         /\ \A c \in LiveMembers' :
               /\ series'[c] = SeriesOf(c, temperatureData', humidityData', pressureData')
               /\ categories'[c] = timeCategories'
         /\ UNCHANGED <<charts, combinedChart, destroyed, extremes, isResetting, stack>>
         /\ turn'.passes = 0]_vars

\* Two readings were pushed into four views that are zoomed to a window.
C22_Witness ==
    /\ obs.op = "push"
    /\ derivedFrom = <<ReadingA, ReadingB>>
    /\ Cardinality(LiveMembers) = 4
    /\ \A m \in LiveMembers : extremes[m] \in Ranges
    /\ series[CombinedChart] = <<temperatureData, humidityData, pressureData>>
    /\ Len(categories[TempChart]) = 2

\* C23: a pointer-leave handler run hides the tooltip and crosshair of every
\* live member of the sync group, the combined view included, and every
\* member's surface has a pointer-leave listener.
C23_LeaveHidesEveryMember ==
    /\ obs.op = "leave" => \A m \in LiveMembers : obs.hidden[m] = 1 /\ tooltip[m] = Undef
    /\ \A m \in LiveMembers : [el |-> m, eventType |-> "mouseleave"] \in attached

\* C24: a push that arrives while a filter is active (the flag set, both
\* dates set) leaves the flag and both dates as they were, and when the
\* readings of the new snapshot on the days start..end are not empty, the
\* labels, the metric arrays and every chart are those of exactly these
\* readings: not of the whole snapshot and not of the previous one.
C24_LiveUpdateUnderFilter ==
    [][(obs'.op = "push" /\ isFilterActive /\ startDate # NoDate /\ endDate # NoDate) =>
         /\ UNCHANGED filterVars
         /\ LET view == SelectSeq(obs'.pushed, LAMBDA r : OnDaysBetween(r, startDate, endDate))
            IN view # << >> =>
                 /\ derivedFrom' = view
                 /\ timeCategories' = [i \in 1..Len(view) |-> LabelOrEmpty(view[i])]
                 /\ temperatureData' = [i \in 1..Len(view) |-> ValueOrZero(view[i].temperature)]
                 /\ humidityData' = [i \in 1..Len(view) |-> ValueOrZero(view[i].humidity)]
                 /\ pressureData' = [i \in 1..Len(view) |-> ValueOrZero(view[i].pressure)]
                 /\ \A c \in LiveMembers' :
                       /\ series'[c] = SeriesOf(c, temperatureData', humidityData', pressureData')
                       /\ categories'[c] = timeCategories']_vars

\* Under the filter 02/01/2025..02/01/2025 a snapshot with a reading of that
\* day and a reading without a time part was pushed; the charts show the one
\* reading of that day.
C24_Witness ==
    /\ obs.op = "push"
    /\ isFilterActive
    /\ startDate = Date2
    /\ endDate = Date2
    /\ obs.pushed = <<ReadingNoTime, ReadingB>>
    /\ derivedFrom = <<ReadingB>>
    /\ series[CombinedChart] = <<<<22>>, <<0>>, <<1001>>>>

\* C25: after a push, an applyDateFilter or a resetFilters that leaves an
\* empty current view, the current-readings display shows no reading: the
\* values and the date and time placeholders of the freshly created view.
C25_EmptyViewShowsNone ==
    (obs.op \in {"push", "apply", "reset"} /\ filteredSensorData = << >>) =>
        /\ currentTemperature = [str |-> FALSE, v |-> 0]
        /\ currentHumidity = [str |-> FALSE, v |-> 0]
        /\ currentPressure = [str |-> FALSE, v |-> 0]
        /\ currentDate = DatePlaceholder
        /\ currentTimeOnly = TimePlaceholder

\* C26: whenever no handler is running, isResetting is false and no
\* broadcast loop is in progress; and when the widget applies a window the
\* user asked for, after the handlers it called have returned, isResetting is
\* false, so the report of a user's reset is not ignored because of a guard
\* an earlier handler left set.
C26_IdleBetweenTurns ==
    /\ Idle => ~isResetting /\ ~Propagating /\ PassDepth = 0
    /\ (Len(stack) = 1 /\ Top.fn = "setExtremes" /\ Top.pc = "apply" /\ Top.caller = "user")
          => ~isResetting

\* A turn in which a reset pass ran has ended, on four zoom-synchronised
\* views with data.
C26_Witness ==
    /\ Idle
    /\ turn.passes > 0
    /\ obs.op = "report"
    /\ Cardinality(LiveMembers) = 4
    /\ temperatureData # << >>

\* C27: every handling turn that a user zoom, pan or reset starts comes to
\* an end: the call stack of syncExtremes, afterSetExtremes and syncResetZoom
\* invocations stays below a fixed depth and empties again.
C27_TurnTerminates ==
    /\ [](Len(stack) < MaxDepth)
    /\ (~Idle) ~> Idle

\* The deepest nesting: a setExtremes call of a reset pass that was started
\* from inside a broadcast.
C27_Witness ==
    /\ Len(stack) = 7
    /\ Propagating
    /\ PassDepth >= 1

\* C28: reports of different views are handled one after the other and the
\* last one wins: when the turn of a view's own (non-synthetic) change to a
\* window ends, every member holds that window, whatever window an earlier
\* report had left on them.
C28_LastWriteWins ==
    (Idle /\ obs.op = "report" /\ obs.caller = "user" /\ obs.window \in Ranges) =>
        \A m \in LiveMembers : extremes[m] = obs.window

\* The humidity view reported the window {1, 2} while it held the window
\* {0, 1} of an earlier report; all four views now hold {1, 2}.
C28_Witness ==
    /\ Idle
    /\ obs.op = "report"
    /\ obs.caller = "user"
    /\ obs.chart = HumidityChart
    /\ obs.was = [min |-> 0, max |-> 1]
    /\ obs.window = [min |-> 1, max |-> 2]
    /\ \A m \in Members : extremes[m] = obs.window

\* C29: in the handling turn of a user's reset-zoom on one member (the
\* bottom frame of the call stack is the user's request for the full extent)
\* the body of syncResetZoom runs at most once.
C29_OnePassPerReset ==
    (stack # << >> /\ IsUnset([min |-> stack[1].min, max |-> stack[1].max])) =>
        turn.passes <= 1

\* C30: while a filter is active, a step that changes the start or end date
\* but leaves the filter active (an edit of a date input, not an
\* applyDateFilter or resetFilters) does not change the current view.
C30_EditKeepsView ==
    [][(isFilterActive /\ isFilterActive' /\ <<startDate, endDate>>' # <<startDate, endDate>>)
         => filteredSensorData' = filteredSensorData]_vars

====
